---- MODULE Spec2Model ----
(***************************************************************************)
(* compute-pcrs: the register compiler (lib/src/pcrs.rs) and the event     *)
(* combination engine (lib/src/tpmevents/combine.rs).                      *)
(*                                                                         *)
(* Two specifications share the module:                                    *)
(*   Spec     one run of combine(images): the recursion of event_subtree   *)
(*            is unfolded depth first over an explicit stack of calls;     *)
(*   SpecPcr  Pcr::compile_from and compile_pcrs applied to an input       *)
(*            event sequence.                                              *)
(*                                                                         *)
(* A TPMEvent is a record [id, pcr, hash, name].  An Option<T> is a        *)
(* sequence of length 0 (None) or 1 (Some).  Image indices are 1-based     *)
(* here and 0-based in the source.                                         *)
(***************************************************************************)
EXTENDS Integers, Sequences, FiniteSets, TLC

\* ------------------------------------------------------------------ bounds
NumIds == 3         \* real identifiers 1..NumIds between the two sentinels
MaxImages == 3      \* combine is run on 2..MaxImages images
MaxHash == 2        \* event digests are 1..MaxHash
GroupBits == 2      \* group masks are 0..2^GroupBits-1
MaxLen == 3         \* longest input of the register compiler
NumNames == 2       \* event names of the register compiler's inputs

\* ------------------------------------------------------- program constants
PCR_INIT_VALUE == 0
PcrLow == 4
PcrHigh == 7

None == <<>>
Some(x) == <<x>>

\* --------------------------------------------------------------- bit masks
RECURSIVE BitAnd(_, _)
BitAnd(a, b) ==
    IF a = 0 \/ b = 0 THEN 0
    ELSE (a % 2) * (b % 2) + 2 * BitAnd(a \div 2, b \div 2)

RECURSIVE BitOr(_, _)
BitOr(a, b) ==
    IF a = 0 THEN b
    ELSE IF b = 0 THEN a
    ELSE (IF a % 2 = 1 \/ b % 2 = 1 THEN 1 ELSE 0) + 2 * BitOr(a \div 2, b \div 2)

\* !b & a on u32 masks: the bits of a that b lacks
RECURSIVE BitAndNot(_, _)
BitAndNot(a, b) ==
    IF a = 0 THEN 0
    ELSE (IF a % 2 = 1 /\ b % 2 = 0 THEN 1 ELSE 0) + 2 * BitAndNot(a \div 2, b \div 2)

RECURSIVE Pow2(_)
Pow2(k) == IF k = 0 THEN 1 ELSE 2 * Pow2(k - 1)

\* ------------------------------------------------------------- the hash
\* Sha256 over old || digest, idealised as collision free: distinct
\* (old, digest) pairs give distinct values, and no value is the initial one.
HashBase == MaxHash + 1
Sha256(old, digest) == old * HashBase + digest

\* ------------------------------------------------------ register compiler
Part(event) == [name |-> event.name, hash |-> event.hash]

\* CompileLoop feeding the hasher the event's digest before the old value
RECURSIVE CompileLoopDigestFirst(_, _, _, _)
CompileLoopDigestFirst(events, i, compiled_pcr, result) ==
    IF i > Len(events) THEN <<result>>
    ELSE IF events[i].pcr # compiled_pcr THEN <<>>
    ELSE CompileLoopDigestFirst(events, i + 1, compiled_pcr,
                                Sha256(events[i].hash, result))

\* CompileLoop leaving the register of the last event unchecked
RECURSIVE CompileLoopLastUnchecked(_, _, _, _)
CompileLoopLastUnchecked(events, i, compiled_pcr, result) ==
    IF i > Len(events) THEN <<result>>
    ELSE IF i < Len(events) /\ events[i].pcr # compiled_pcr THEN <<>>
    ELSE CompileLoopLastUnchecked(events, i + 1, compiled_pcr,
                                  Sha256(result, events[i].hash))

\* the for loop of Pcr::compile_from from index i on, result being the
\* running digest; <<>> when the loop panics on a foreign register
RECURSIVE CompileLoop(_, _, _, _)
CompileLoop(events, i, compiled_pcr, result) ==
    IF i > Len(events) THEN Some(result)
    ELSE IF events[i].pcr # compiled_pcr THEN None
    ELSE CompileLoop(events, i + 1, compiled_pcr, Sha256(result, events[i].hash))

CompileFrom(events) ==
    IF Len(events) = 0 THEN [outcome |-> "index_panic"]
    ELSE LET value == CompileLoop(events, 1, events[1].pcr, PCR_INIT_VALUE)
         IN  IF value = None THEN [outcome |-> "mismatch_panic"]
             ELSE [outcome |-> "ok",
                   pcr |-> [id |-> events[1].pcr,
                            value |-> value[1],
                            parts |-> [k \in 1..Len(events) |-> Part(events[k])]]]

\* Unique keeping the last occurrence of each element instead of the first
RECURSIVE UniqueKeepsLast(_)
UniqueKeepsLast(s) ==
    IF s = <<>> THEN <<>>
    ELSE LET rest == UniqueKeepsLast(Tail(s))
         IN  IF \E k \in 1..Len(rest) : rest[k] = Head(s) THEN rest
             ELSE <<Head(s)>> \o rest

\* itertools unique(): first occurrences, in order
RECURSIVE Unique(_)
Unique(s) ==
    IF s = <<>> THEN <<>>
    ELSE LET init == Unique(SubSeq(s, 1, Len(s) - 1))
             x == s[Len(s)]
         IN  IF \E k \in 1..Len(init) : init[k] = x THEN init ELSE Append(init, x)

FilterPcr(events, n) ==
    LET keep(e) == e.pcr = n IN SelectSeq(events, keep)

CompilePcrs(events) ==
    LET pcrs == Unique([k \in 1..Len(events) |-> events[k].pcr])
        each == [k \in 1..Len(pcrs) |-> CompileFrom(FilterPcr(events, pcrs[k]))]
    IN  IF \E k \in 1..Len(each) : each[k].outcome # "ok"
        THEN [outcome |-> "panic"]
        ELSE [outcome |-> "ok", pcrs |-> [k \in 1..Len(each) |-> each[k].pcr]]

\* ------------------------------------------------- event identifier oracle
\* TPMEventID: PcrRootNodeEvent, the real identifiers in canonical order,
\* and the terminal sentinel, the only identifier without a successor.
PcrRootNodeEvent == 0
Ids == 1..NumIds
PcrLastNodeEvent == NumIds + 1

\* TPMEventID::next
NextId(id) == IF id = PcrLastNodeEvent THEN None ELSE Some(id + 1)

\* the register an identifier is measured into
PcrOf(id) == IF 2 * id <= NumIds + 1 THEN PcrLow ELSE PcrHigh

\* -------------------------------------------------------- group ownership
partially_owned(owner, groups) == BitAnd(groups, owner) # 0

fully_owned(owner, groups) == BitAnd(owner, groups) = groups

other_owns_partially(owner_index, owned_groups, event_groups) ==
    \E i \in 1..Len(owned_groups) :
        i # owner_index /\ partially_owned(owned_groups[i], event_groups)

other_owns_fully(owner_index, owned_groups, event_groups) ==
    \E i \in 1..Len(owned_groups) :
        i # owner_index /\ fully_owned(owned_groups[i], event_groups)

can_own(owner_index, owned_groups, event_groups) ==
    LET missing_groups == BitAndNot(event_groups, owned_groups[owner_index])
    IN  ~other_owns_partially(owner_index, owned_groups, missing_groups)

\* tpm_event_id_hashmap: identifier -> Option<event>; collecting into a
\* HashMap keeps, for an identifier listed twice, the event listed last
tpm_event_id_hashmap(events) ==
    [id \in PcrRootNodeEvent..PcrLastNodeEvent |->
        LET at == {k \in 1..Len(events) : events[k].id = id}
        IN  IF at = {} THEN None
            ELSE Some(events[CHOOSE k \in at : \A j \in at : j <= k])]

\* ----------------------------------------------------------- event_subtree
\* One turn of the loop over opts, for image i.  The loop state st holds
\* divs (event, group_masks), events_added (event -> (global_ids, div_idx)),
\* conflicts and event_required.
\* LoopBody starting a new divergence from the masks of the divergence
\* before it instead of a copy of the incoming ownership
LoopBodySharedMasks(st, i, opt, groups, event_groups) ==
    IF opt = <<>> THEN [st EXCEPT !.event_required = FALSE]
    ELSE LET event == opt[1] IN
         IF can_own(i, groups, event_groups)
         THEN LET known == event \in DOMAIN st.events_added
                  div_idx == IF known THEN st.events_added[event].div_idx
                             ELSE Len(st.divs)
                  global_ids == IF known THEN st.events_added[event].global_ids
                                ELSE <<>>
                  entry == [global_ids |-> Append(global_ids, i), div_idx |-> div_idx]
                  added == [e \in DOMAIN st.events_added \cup {event} |->
                               IF e = event THEN entry ELSE st.events_added[e]]
                  start == IF st.divs = <<>> THEN groups
                           ELSE st.divs[Len(st.divs)].groups
                  divs1 == IF Len(st.divs) = div_idx
                           THEN Append(st.divs, [event |-> event, groups |-> start])
                           ELSE st.divs
                  masked_groups == [divs1[div_idx + 1].groups EXCEPT
                                       ![i] = BitOr(@, event_groups)]
              IN  [st EXCEPT !.events_added = added,
                             !.divs = [divs1 EXCEPT ![div_idx + 1].groups = masked_groups]]
         ELSE IF other_owns_partially(i, groups, event_groups)
                 /\ ~other_owns_fully(i, groups, event_groups)
         THEN [st EXCEPT !.conflicts = Append(@, i)]
         ELSE st

LoopBody(st, i, opt, groups, event_groups) ==
    IF opt = None THEN [st EXCEPT !.event_required = FALSE]
    ELSE LET event == opt[1] IN
         IF can_own(i, groups, event_groups)
         THEN LET known == event \in DOMAIN st.events_added
                  div_idx == IF known THEN st.events_added[event].div_idx
                             ELSE Len(st.divs)
                  global_ids == IF known THEN st.events_added[event].global_ids
                                ELSE <<>>
                  entry == [global_ids |-> Append(global_ids, i), div_idx |-> div_idx]
                  added == [e \in DOMAIN st.events_added \cup {event} |->
                               IF e = event THEN entry ELSE st.events_added[e]]
                  divs1 == IF Len(st.divs) = div_idx
                           THEN Append(st.divs, [event |-> event, groups |-> groups])
                           ELSE st.divs
                  masked_groups == [divs1[div_idx + 1].groups EXCEPT
                                       ![i] = BitOr(@, event_groups)]
              IN  [st EXCEPT !.events_added = added,
                             !.divs = [divs1 EXCEPT ![div_idx + 1].groups = masked_groups]]
         ELSE IF other_owns_partially(i, groups, event_groups)
                 /\ ~other_owns_fully(i, groups, event_groups)
         THEN [st EXCEPT !.conflicts = Append(@, i)]
         ELSE st

RECURSIVE Loop(_, _, _, _)
Loop(i, opts, groups, event_groups) ==
    IF i = 0
    THEN [divs |-> <<>>, events_added |-> <<>>, conflicts |-> <<>>,
          event_required |-> TRUE]
    ELSE LoopBody(Loop(i - 1, opts, groups, event_groups), i, opts[i],
                  groups, event_groups)

\* the collapse of a single agreed value onto the incoming ownership
Collapse(st, groups) ==
    IF Cardinality(DOMAIN st.events_added) = 1 /\ st.event_required
    THEN [st EXCEPT !.divs = <<[event |-> CHOOSE e \in DOMAIN st.events_added : TRUE,
                                groups |-> groups]>>]
    ELSE st

\* Ending without the two panics: a call without divergence moves on
EndingSkipsSilently(st, next) ==
    IF next = <<>> THEN "none"
    ELSE IF st.divs = <<>> THEN "skip" ELSE "nodes"

\* how the call ends once the loop and the collapse are done
Ending(st, next) ==
    IF st.conflicts # <<>> THEN "panic_new_alg"
    ELSE IF st.divs = <<>>
         THEN IF st.event_required THEN "panic_conflict_hit"
              ELSE IF next = None THEN "none" ELSE "skip"
         ELSE IF next = None THEN "none" ELSE "nodes"

EventSubtreeBody(event_id, event_maps, groups, event_groups) ==
    LET opts == [i \in 1..Len(event_maps) |-> event_maps[i][event_id]]
        st == Collapse(Loop(Len(opts), opts, groups, event_groups), groups)
    IN  [opts |-> opts, divs |-> st.divs, conflicts |-> st.conflicts,
         event_required |-> st.event_required,
         ending |-> Ending(st, NextId(event_id))]

VARIABLES images, mask, event_maps, pc, stack, branches, result, last,
          input, op, out

vars == <<images, mask, event_maps, pc, stack, branches, result, last,
          input, op, out>>

\* ------------------------------------------------------------------- Spec
GroupMasks == 0..(Pow2(GroupBits) - 1)

\* TPMEventID::groups
Groups(id) == IF id \in Ids THEN mask[id] ELSE 0

TPMEvent(id, hash) == [id |-> id, pcr |-> PcrOf(id), hash |-> hash, name |-> id]

\* the image holding, for every identifier id with slots[id] # 0, the event
\* of digest slots[id]; listed in canonical order, or backwards
RECURSIVE ImageUpTo(_, _)
ImageUpTo(slots, id) ==
    IF id = 0 THEN <<>>
    ELSE IF slots[id] = 0 THEN ImageUpTo(slots, id - 1)
    ELSE Append(ImageUpTo(slots, id - 1), TPMEvent(id, slots[id]))

Reverse(s) == [k \in 1..Len(s) |-> s[Len(s) + 1 - k]]

Image(slots, backwards) ==
    IF backwards THEN Reverse(ImageUpTo(slots, NumIds)) ELSE ImageUpTo(slots, NumIds)

NoCall ==
    [id |-> PcrRootNodeEvent, groups |-> <<>>, path |-> <<>>, opts |-> <<>>,
     divs |-> <<>>, conflicts |-> <<>>, event_required |-> TRUE, ending |-> "start"]

PcrIdle ==
    /\ input = <<>>
    /\ op = "idle"
    /\ out = <<>>

\* The digests the n images hold for one identifier (0: the image has no
\* such event).  The engine only compares digests and hashes them, so they
\* are enumerated up to renaming: a digest is at most one more than the
\* largest digest of the images before it.
Columns(n) ==
    {col \in [1..n -> 0..MaxHash] :
        \A i \in 1..n : \E j \in 0..(i - 1) :
            col[i] <= 1 + (IF j = 0 THEN 0 ELSE col[j])}

\* 2..MaxImages images; pairs of images are also taken listed backwards
Init ==
    /\ \E n \in 2..MaxImages :
       \E backwards \in IF n = 2 THEN BOOLEAN ELSE {FALSE} :
       \E cols \in [Ids -> Columns(n)] :
            images = [i \in 1..n |->
                         Image([id \in Ids |-> cols[id][i]], backwards)]
    /\ mask \in [Ids -> GroupMasks]
    /\ event_maps = <<>>
    /\ pc = "start"
    /\ stack = <<>>
    /\ branches = <<>>
    /\ result = <<>>
    /\ last = NoCall
    /\ PcrIdle

\* combine, up to the first call of event_subtree
Combine ==
    /\ pc = "start"
    /\ event_maps' = [i \in 1..Len(images) |-> tpm_event_id_hashmap(images[i])]
    /\ stack' = <<[id |-> NextId(PcrRootNodeEvent)[1],
                   groups |-> [i \in 1..Len(images) |-> 0],
                   path |-> <<>>]>>
    /\ pc' = "run"
    /\ UNCHANGED <<images, mask, branches, result, last, input, op, out>>

\* Children with no node pushed
ChildrenNotPushed(call, divs, next) == <<>>

\* Children holding the first divergence's event in every node
ChildrenFirstDiv(call, divs, next) ==
    [k \in 1..Len(divs) |->
        [id |-> next, groups |-> divs[k].groups,
         path |-> Append(call.path, divs[1].event)]]

\* the calls of event_subtree a node makes for its divergences, in order
Children(call, divs, next) ==
    [k \in 1..Len(divs) |->
        [id |-> next, groups |-> divs[k].groups,
         path |-> Append(call.path, divs[k].event)]]

\* One call of event_subtree, the one on top of the stack.  A call that
\* yields None leaves the node above it a leaf, whose path is then a branch;
\* with no node above it, combine gets None and there is no branch.
EventSubtree ==
    /\ pc = "run"
    /\ \E call \in {Head(stack)} :
       \E body \in {EventSubtreeBody(call.id, event_maps, call.groups, Groups(call.id))} :
       \E rest \in {CASE body.ending = "nodes" ->
                           Children(call, body.divs, NextId(call.id)[1]) \o Tail(stack)
                      [] body.ending = "skip" ->
                           <<[call EXCEPT !.id = NextId(call.id)[1]]>> \o Tail(stack)
                      [] OTHER -> Tail(stack)} :
          /\ last' = [id |-> call.id, groups |-> call.groups, path |-> call.path,
                      opts |-> body.opts, divs |-> body.divs,
                      conflicts |-> body.conflicts,
                      event_required |-> body.event_required,
                      ending |-> body.ending]
          /\ IF body.ending \in {"panic_new_alg", "panic_conflict_hit"}
             THEN pc' = "panic" /\ stack' = stack
             ELSE /\ stack' = rest
                  /\ pc' = IF rest = <<>> THEN "collect" ELSE "run"
          /\ branches' = IF body.ending = "none" /\ call.path # <<>>
                         THEN Append(branches, call.path) ELSE branches
    /\ UNCHANGED <<images, mask, event_maps, result, input, op, out>>

\* combine, after event_subtree returned: every branch compiled, duplicates
\* dropped
CombineCollect ==
    /\ pc = "collect"
    /\ result' = Unique([k \in 1..Len(branches) |-> CompilePcrs(branches[k]).pcrs])
    /\ pc' = "done"
    /\ UNCHANGED <<images, mask, event_maps, stack, branches, last, input, op, out>>

Next == Combine \/ EventSubtree \/ CombineCollect

Spec == Init /\ [][Next]_vars

\* ---------------------------------------------------------------- SpecPcr
Registers == {PcrLow, PcrHigh}
Names == 1..NumNames
InputEvents == [id : 1..1, pcr : Registers, hash : 1..MaxHash, name : Names]

RECURSIVE SeqsUpTo(_, _)
SeqsUpTo(S, n) ==
    IF n = 0 THEN {<<>>}
    ELSE LET shorter == SeqsUpTo(S, n - 1)
         IN  shorter \cup {Append(s, x) : s \in {t \in shorter : Len(t) = n - 1}, x \in S}

CombineIdle ==
    /\ images = <<>>
    /\ mask = <<>>
    /\ event_maps = <<>>
    /\ pc = "idle"
    /\ stack = <<>>
    /\ branches = <<>>
    /\ result = <<>>
    /\ last = NoCall

InitPcr ==
    /\ input \in SeqsUpTo(InputEvents, MaxLen)
    /\ op = "none"
    /\ out = <<>>
    /\ CombineIdle

CallCompileFrom ==
    /\ op = "none"
    /\ op' = "compile_from"
    /\ out' = CompileFrom(input)
    /\ UNCHANGED <<input, images, mask, event_maps, pc, stack, branches, result, last>>

CallCompilePcrs ==
    /\ op = "none"
    /\ op' = "compile_pcrs"
    /\ out' = CompilePcrs(input)
    /\ UNCHANGED <<input, images, mask, event_maps, pc, stack, branches, result, last>>

NextPcr == CallCompileFrom \/ CallCompilePcrs

SpecPcr == InitPcr /\ [][NextPcr]_vars

\* ================================================================ claims
NumImages == Len(images)
Panics == {"panic_new_alg", "panic_conflict_hit"}
HasBit(m, g) == (m \div Pow2(g)) % 2 = 1
Supplies(i, e) == event_maps[i][e.id] = Some(e)

\* the events image i holds, in canonical identifier order
RECURSIVE CanonicalUpTo(_, _)
CanonicalUpTo(i, id) ==
    IF id = 0 THEN <<>>
    ELSE CanonicalUpTo(i, id - 1) \o event_maps[i][id]

Canonical(i) == CanonicalUpTo(i, NumIds)
Listed(events) == \A k \in 1..(Len(events) - 1) : events[k].id < events[k + 1].id
Called == last.ending # "start"

\* ---- C1
BranchRespectsGroups(b) ==
    \A g \in 0..(GroupBits - 1) :
        \E i \in 1..NumImages :
            \A k \in 1..Len(b) : HasBit(Groups(b[k].id), g) => Supplies(i, b[k])

\* C1: when combine returns normally, every branch takes, for every group
\* bit, all its events of that group from one single image - for any number
\* of images.
C1_BranchesRespectGroups ==
    pc = "done" => \A k \in 1..Len(branches) : BranchRespectsGroups(branches[k])

\* ---- C2
\* images 1 and 2 hold exactly the identifiers p and q, with different
\* digests on both, and the masks of p and q share a bit
TwoGroupedDiffs(p, q) ==
    /\ NumImages = 2
    /\ p < q
    /\ BitAnd(Groups(p), Groups(q)) # 0
    /\ \A i \in 1..2 : \A id \in Ids : (event_maps[i][id] # None) <=> (id \in {p, q})
    /\ event_maps[1][p] # event_maps[2][p]
    /\ event_maps[1][q] # event_maps[2][q]

Solution(events) == CompilePcrs(events).pcrs

\* C2: two images differing on two identifiers whose masks share a bit give
\* exactly the all-A and the all-B solution, whatever further bits either
\* mask carries; combine returns normally.
C2_TwoSolutionsPerSharedGroup ==
    (pc \in {"run", "collect", "done", "panic"}
        /\ \E p, q \in Ids : TwoGroupedDiffs(p, q))
    => /\ pc # "panic"
       /\ pc = "done" => result = <<Solution(Canonical(1)), Solution(Canonical(2))>>

\* ---- C3
SameImageTwice == NumImages = 2 /\ images[1] = images[2]

OneSolutionAsCompiled ==
    /\ pc # "panic"
    /\ pc = "done" => result = <<Solution(images[1])>>

\* C3 as stated: combine([L, L]) is the one solution compile_pcrs(L), for
\* every L, the empty one and the ones out of canonical order included.
C3_SameImageAnyListing == SameImageTwice => OneSolutionAsCompiled

\* C3 amended: combine([L, L]) is the one solution compile_pcrs(L) for every
\* non-empty L whose events are listed in canonical identifier order.
C3_SameImageListed ==
    (SameImageTwice /\ images[1] # <<>> /\ Listed(images[1])) => OneSolutionAsCompiled

C3_Witness ==
    /\ pc = "done"
    /\ SameImageTwice
    /\ Len(images[1]) = NumIds
    /\ Listed(images[1])
    /\ \E id \in Ids : Groups(id) # 0
    /\ Len(result) = 1

\* ---- C4
Differing == {id \in Ids : event_maps[1][id] # event_maps[2][id]}

UngroupedDiffs ==
    /\ pc \in {"run", "collect", "done", "panic"}
    /\ NumImages = 2
    /\ \A id \in Ids : (event_maps[1][id] = None) <=> (event_maps[2][id] = None)
    /\ Differing # {}
    /\ \A id \in Differing : Groups(id) = 0

\* the events of image 1, those at the identifiers in from2 replaced by
\* image 2's
RECURSIVE PickUpTo(_, _)
PickUpTo(from2, id) ==
    IF id = 0 THEN <<>>
    ELSE PickUpTo(from2, id - 1)
            \o (IF id \in from2 THEN event_maps[2][id] ELSE event_maps[1][id])

\* C4: two images holding the same identifiers and differing only where the
\* mask is 0 meet no conflict, and the solutions are the 2^k ways of taking
\* image 1's or image 2's event at each of the k differing identifiers.
C4_UngroupedCrossProduct ==
    UngroupedDiffs =>
        /\ pc # "panic"
        /\ last.conflicts = <<>>
        /\ pc = "done" =>
            /\ Len(result) = Pow2(Cardinality(Differing))
            /\ {result[k] : k \in 1..Len(result)}
                 = {Solution(PickUpTo(from2, NumIds)) : from2 \in SUBSET Differing}

C4_Witness ==
    /\ pc = "done"
    /\ UngroupedDiffs
    /\ Cardinality(Differing) = 2
    /\ \E id \in Ids : id \notin Differing /\ event_maps[1][id] # None /\ Groups(id) # 0
    /\ Len(result) = 4

\* ---- C8
SomeSupplierCanOwn ==
    \E i \in 1..NumImages :
        last.opts[i] # None /\ can_own(i, last.groups, Groups(last.id))

\* C8: a call of event_subtree in which some image that holds the
\* identifier passes can_own signals no conflict and yields a node.
C8_ConflictOnlyWithoutOwner ==
    (Called /\ SomeSupplierCanOwn) => (last.ending = "nodes" /\ last.divs # <<>>)

\* ---- C9
AllAgree ==
    /\ last.opts[1] # None
    /\ \A i \in 1..NumImages : last.opts[i] = last.opts[1]

\* C9: a call of event_subtree in which every image holds the same event
\* signals no conflict, yields exactly one node, of that event, and hands
\* the incoming ownership vector unchanged to the call on the successor.
C9_AgreedValueNeverForks ==
    (Called /\ AllAgree) =>
        /\ last.ending = "nodes"
        /\ Len(last.divs) = 1
        /\ pc = "run"
        /\ Head(stack) = [id |-> last.id + 1, groups |-> last.groups,
                          path |-> Append(last.path, last.opts[1][1])]

\* ---- C10
SomeSupplies == \E i \in 1..NumImages : last.opts[i] # None
AllSupply == \A i \in 1..NumImages : last.opts[i] # None

OneRegister(events) ==
    events # <<>> /\ \A k \in 1..Len(events) : events[k].pcr = events[1].pcr

\* the extend rule folded from the left over the digests of events
RECURSIVE Chain(_)
Chain(events) ==
    IF events = <<>> THEN PCR_INIT_VALUE
    ELSE Sha256(Chain(SubSeq(events, 1, Len(events) - 1)), events[Len(events)].hash)

\* C5: compile_from of a non-empty sequence of one register returns that
\* register's number, the left fold of Hash(old || digest) from the zero
\* digest, and the (name, digest) of every event in input order.
C5_CompileFromFoldsInOrder ==
    (op = "compile_from" /\ OneRegister(input)) =>
        /\ out.outcome = "ok"
        /\ out.pcr.id = input[1].pcr
        /\ out.pcr.value = Chain(input)
        /\ Len(out.pcr.parts) = Len(input)
        /\ \A k \in 1..Len(input) :
              /\ out.pcr.parts[k].name = input[k].name
              /\ out.pcr.parts[k].hash = input[k].hash

C5_Witness ==
    /\ op = "compile_from"
    /\ OneRegister(input)
    /\ Len(input) = MaxLen
    /\ input[1].hash # input[2].hash
    /\ input[1].name # input[2].name
    /\ out.outcome = "ok"

\* ---- C6
\* C6: compile_from of a sequence holding an event of another register than
\* the first event's ends in the mismatched-register panic, without a Pcr,
\* wherever that event sits.
C6_MismatchPanics ==
    (op = "compile_from" /\ \E k \in 1..Len(input) : input[k].pcr # input[1].pcr)
        => out = [outcome |-> "mismatch_panic"]

C6_Witness ==
    /\ op = "compile_from"
    /\ Len(input) = MaxLen
    /\ \A k \in 1..(MaxLen - 1) : input[k].pcr = input[1].pcr
    /\ input[MaxLen].pcr # input[1].pcr
    /\ out = [outcome |-> "mismatch_panic"]

\* ---- C7
RegistersOf(events) == {events[k].pcr : k \in 1..Len(events)}
FirstSeen(events, n) == CHOOSE k \in 1..Len(events) :
                           events[k].pcr = n /\ \A j \in 1..(k - 1) : events[j].pcr # n

RECURSIVE EventsOf(_, _)
EventsOf(events, n) ==
    IF events = <<>> THEN <<>>
    ELSE LET front == EventsOf(SubSeq(events, 1, Len(events) - 1), n)
             e == events[Len(events)]
         IN  IF e.pcr = n THEN Append(front, e) ELSE front

\* C7: compile_pcrs never panics and returns one Pcr per register of the
\* input, in the order the registers first appear, each the compile_from of
\* that register's events in input order; nothing for the empty input.
C7_CompilePcrsPerRegister ==
    op = "compile_pcrs" =>
        /\ out.outcome = "ok"
        /\ Len(out.pcrs) = Cardinality(RegistersOf(input))
        /\ {out.pcrs[k].id : k \in 1..Len(out.pcrs)} = RegistersOf(input)
        /\ \A j, k \in 1..Len(out.pcrs) :
              j < k => FirstSeen(input, out.pcrs[j].id) < FirstSeen(input, out.pcrs[k].id)
        /\ \A k \in 1..Len(out.pcrs) :
              /\ out.pcrs[k].value = Chain(EventsOf(input, out.pcrs[k].id))
              /\ CompileFrom(EventsOf(input, out.pcrs[k].id))
                    = [outcome |-> "ok", pcr |-> out.pcrs[k]]
        /\ input = <<>> => out.pcrs = <<>>

C7_Witness ==
    /\ op = "compile_pcrs"
    /\ Len(input) = MaxLen
    /\ input[1].pcr = PcrHigh
    /\ input[2].pcr = PcrLow
    /\ input[MaxLen].pcr = PcrHigh
    /\ out.outcome = "ok"
    /\ Len(out.pcrs) = 2
    /\ out.pcrs[1].id = PcrHigh

\* ---- C11
\* the calls the latest call of event_subtree made: one per node, or the one
\* on the successor when the identifier was passed over
CallsMade ==
    IF last.ending = "nodes" THEN SubSeq(stack, 1, Len(last.divs))
    ELSE IF last.ending = "skip" THEN SubSeq(stack, 1, 1)
    ELSE <<>>

\* the ownership the call c received, against that of the call that made it
OnlyGains(c) ==
    \A i \in 1..NumImages :
        /\ BitAnd(c.groups[i], last.groups[i]) = last.groups[i]
        /\ BitAndNot(BitAndNot(c.groups[i], last.groups[i]), Groups(last.id)) = 0

\* an image whose event is not the one of c's node gets no bit in c
OwnCopy(c) ==
    \A i \in 1..NumImages :
        (last.ending = "skip" \/ last.opts[i] # Some(c.path[Len(c.path)]))
            => c.groups[i] = last.groups[i]

\* C11: every call of event_subtree made from a call with ownership G
\* receives an ownership that keeps every bit of G and adds only bits of the
\* current identifier's mask, and the ownership handed to one divergence
\* holds none of the bits added for the images of a sibling divergence.
C11_OwnershipOnlyGrows ==
    Called =>
        /\ pc = "run" => Len(stack) >= Len(CallsMade)
        /\ \A k \in 1..Len(CallsMade) :
              /\ CallsMade[k].id = last.id + 1
              /\ OnlyGains(CallsMade[k])
              /\ OwnCopy(CallsMade[k])

C11_Witness ==
    /\ Called
    /\ last.ending = "nodes"
    /\ Len(last.divs) >= 2
    /\ \E i \in 1..NumImages : last.groups[i] # 0
    /\ \E k \in 1..Len(CallsMade) : \E i \in 1..NumImages :
          /\ last.groups[i] # 0
          /\ CallsMade[k].groups[i] # last.groups[i]

====
